---- MODULE Spec2Model ----
(***************************************************************************)
(* Model of discord_twitter_webhooks/send_webhook.py: the webhook          *)
(* dispatch pipeline (send_embed_webhook, send_normal_webhook,             *)
(* _send_webhook, send_error_webhook, send_hook_and_files,                 *)
(* download_images, get_embed_image).                                      *)
(*                                                                         *)
(* The program is single-threaded and synchronous, so it is modelled as a  *)
(* call stack of frames.  Every frame holds the function, the position in  *)
(* it and its local variables.  One action is one stretch of straight-line *)
(* code between two calls, loop iterations or HTTP requests.               *)
(*                                                                         *)
(* Strings that the code splits are sequences of one-character strings.    *)
(* An HTTP request has three outcomes: a success response ("ok"), a        *)
(* non-success response ("fail"), or no response at all because requests   *)
(* raised (timeout, connection failure: "raise").  No function of the      *)
(* module has a try/except, so an exception unwinds the whole stack.       *)
(***************************************************************************)
EXTENDS Integers, Sequences, FiniteSets, Bags, TLC

VARIABLES
    settings,      \* the configuration snapshot (module discord_twitter_webhooks.settings)
    status,        \* "idle", "running", "returned" (normal return), "raised" (exception left the entry point)
    fault,         \* the exception that left the entry point, "none" when there is none
    entry,         \* the entry point called and its arguments
    post,          \* the post the caller relays: the other arguments of send_embed_webhook
    stack,         \* the call stack, innermost frame last
    temp_dir,      \* tempfile.TemporaryDirectory of download_images: "None", "exists", "removed"
    images,        \* local images of download_images / send_hook_and_files: staged file names in order
    embed_image,   \* value returned by get_embed_image
    embed_color,   \* the color set_color gave the embed, "unset" before
    embed,         \* the DiscordEmbed of send_embed_webhook: its fields, done once added to the hook
    drawn,         \* the values randint returned to set_color, in order
    colorErrors,   \* number of error lines set_color logged
    embedBuilt,    \* TRUE once send_embed_webhook has constructed DiscordWebhook and DiscordEmbed
    deliveries,    \* HTTP POSTs to notification targets, in order: [url, resp]
    errPosts,      \* bag of urls POSTed to by the error reporter's send
    errFails,      \* number of error-destination POSTs answered with non-success
    errInvoked,    \* number of invocations of send_error_webhook
    errLogged,     \* number of logger.error("Got an error: ...") lines written by send_error_webhook
    firstErrMsg,   \* kind of message of the first send_error_webhook invocation
    auxCalls,      \* number of HTTP calls of get_embed_image (collage GET and HEAD)
    auxResp,       \* the outcomes of the HTTP calls of get_embed_image, in order
    downloads      \* the outcomes of the GETs of download_images, in order

vars == <<settings, status, fault, entry, post, stack, temp_dir, images, embed_image,
          embed_color, embed, drawn, colorErrors, embedBuilt, deliveries, errPosts, errFails,
          errInvoked, errLogged, firstErrMsg, auxCalls, auxResp, downloads>>

----------------------------------------------------------------------------
(* Bounds of the model *)

\* Depth at which the interpreter raises RecursionError (sys.getrecursionlimit(),
\* 1000 frames in CPython; kept small here).
RecursionLimit == 7

\* Longest media_links list of an invocation.
MaxMedia == 2

----------------------------------------------------------------------------
(* Strings *)

\* str.split(sep) on a sequence of characters: always at least one piece,
\* empty pieces are kept ("".split(",") is [""], "a,".split(",") is ["a", ""]).
RECURSIVE SplitFrom(_, _, _, _)
SplitFrom(s, sep, k, cur) ==
    IF k > Len(s) THEN <<cur>>
    ELSE IF s[k] = sep THEN <<cur>> \o SplitFrom(s, sep, k + 1, <<>>)
    ELSE SplitFrom(s, sep, k + 1, Append(cur, s[k]))

\* A faulty variant: the string is used whole, as one target.
SplitWhole(s, sep) == <<s>>

Split(s, sep) == SplitFrom(s, sep, 1, <<>>)

\* Number of occurrences of character c in s.
RECURSIVE Count(_, _)
Count(s, c) ==
    IF s = <<>> THEN 0
    ELSE (IF Head(s) = c THEN 1 ELSE 0) + Count(Tail(s), c)

HexLower == <<"0", "1", "2", "3", "4", "5", "6", "7", "8", "9", "a", "b", "c", "d", "e", "f">>
HexUpper == <<"0", "1", "2", "3", "4", "5", "6", "7", "8", "9", "A", "B", "C", "D", "E", "F">>

IsHexDigit(c) == \E k \in 1..16 : HexLower[k] = c \/ HexUpper[k] = c

DigitValue(c) == (CHOOSE k \in 1..16 : HexLower[k] = c \/ HexUpper[k] = c) - 1

RECURSIVE HexValue(_)
HexValue(s) ==
    IF s = <<>> THEN 0
    ELSE 16 * HexValue(SubSeq(s, 1, Len(s) - 1)) + DigitValue(s[Len(s)])

\* int(s, 16): the value of the digits, ValueError for an empty string or a
\* character that is no hexadecimal digit.
ParseHex(s) ==
    IF s # <<>> /\ \A k \in 1..Len(s) : IsHexDigit(s[k])
    THEN [ok |-> TRUE, value |-> HexValue(s)]
    ELSE [ok |-> FALSE, value |-> 0]

\* hex(n)[2:]: the lowercase digits of n without leading zeros, "0" for 0.
RECURSIVE ToHex(_)
ToHex(n) ==
    IF n < 16 THEN <<HexLower[n + 1]>>
    ELSE Append(ToHex(n \div 16), HexLower[(n % 16) + 1])

\* media_link.split('/')[-1]
Basename(link) == LET p == Split(link, "/") IN p[Len(p)]

----------------------------------------------------------------------------
(* Inputs *)

Webhooks == { <<>>, <<"A">>, <<"A", ",", "B", ",", "C">> }

ErrorWebhooks == { <<>>, <<"E">>, <<"E", ",", "F">> }

AllLinks == << <<"x", "/", "a">>, <<"y", "/", "b">>, <<"z", "/", "c">>, <<"w", "/", "d">> >>

MediaLists == { SubSeq(AllLinks, 1, n) : n \in 0..MaxMedia }

\* Values of settings.webhook_embed_color: unset, a valid color, a string of
\* the wrong shape, and a string of the right shape whose digits are not
\* hexadecimal.
EmbedColors ==
    { <<>>,
      <<"#", "0", "0", "f", "F", "1", "0">>,
      <<"r", "e", "d">>,
      <<"#", "G", "G", "G", "G", "G", "G">> }

\* Values randint(0, 16777215) is drawn from.
RandomDraws == {0, 15, 16, 255, 16777215}

\* Outcomes of one HTTP request.
Outcomes == {"ok", "fail", "raise"}

\* Configurations of the delivery paths; the options that decorate the embed
\* are left unset.
Settings ==
    [ send_errors        : {"True", "False"},
      error_webhook      : ErrorWebhooks,
      webhook_embed_color           : EmbedColors,
      webhook_randomize_embed_color : BOOLEAN,
      upload_images      : BOOLEAN,
      append_image_links : BOOLEAN,
      webhook_image          : {<<>>},
      webhook_thumbnail      : {<<>>},
      webhook_show_timestamp : {FALSE},
      webhook_author_name    : {<<>>},
      webhook_author_icon    : {<<>>},
      webhook_author_url     : {<<>>},
      webhook_footer_icon    : {<<>>},
      webhook_footer_text    : {<<>>},
      use_title              : {FALSE},
      use_author             : {FALSE} ]

\* Configurations of the embed: every decoration set or unset, errors only
\* logged, the color left to its default.
EmbedSettings ==
    [ send_errors        : {"False"},
      error_webhook      : {<<>>},
      webhook_embed_color           : {<<>>},
      webhook_randomize_embed_color : {FALSE},
      upload_images      : {FALSE},
      append_image_links : {FALSE},
      webhook_image          : {<<>>, <<"http://o/image.png">>},
      webhook_thumbnail      : {<<>>, <<"http://o/thumb.png">>},
      webhook_show_timestamp : BOOLEAN,
      webhook_author_name    : {<<>>, <<"Bot">>},
      webhook_author_icon    : {<<>>, <<"http://o/icon.png">>},
      webhook_author_url     : {<<>>, <<"http://o/author">>},
      webhook_footer_icon    : {<<>>, <<"http://o/footer.png">>},
      webhook_footer_text    : {<<>>, <<"footer">>},
      use_title              : BOOLEAN,
      use_author             : BOOLEAN ]

\* The post the caller relays: the arguments of send_embed_webhook other
\* than webhook and media_links. Strings are sequences of tokens.
PlainPost ==
    [ tweet_id           |-> <<"42">>,
      text               |-> <<"hello">>,
      twitter_card_image |-> <<>>,
      avatar_url         |-> <<"http://a/i.png">>,
      display_name       |-> <<"Alice">>,
      username           |-> <<"alice">> ]

Posts == {PlainPost, [PlainPost EXCEPT !.twitter_card_image = <<"http://a/card.png">>]}

NoEntry == [fn |-> "none", webhook |-> <<>>, media |-> <<>>]

\* A DiscordEmbed nothing was set on. An absent string is <<>>, an absent
\* footer or author block is the empty sequence.
NoEmbed ==
    [ description |-> <<>>,
      image       |-> <<>>,
      thumbnail   |-> <<>>,
      timestamp   |-> FALSE,
      footer      |-> <<>>,
      title       |-> <<>>,
      author      |-> <<>>,
      done        |-> FALSE ]

----------------------------------------------------------------------------
(* Frames and the call stack *)

Frame(fn, message, webhook, func_name, files, media) ==
    [ fn        |-> fn,
      pc        |-> "start",
      message   |-> message,
      webhook   |-> webhook,
      func_name |-> func_name,
      files     |-> files,
      media     |-> media,
      list      |-> <<>>,
      i         |-> 1 ]

Top == stack[Len(stack)]

At(fn, pc) == status = "running" /\ stack # <<>> /\ Top.fn = fn /\ Top.pc = pc

\* The stack with the top frame changed.
WithTop(f) == [stack EXCEPT ![Len(stack)] = f]

Goto(pc) == WithTop([Top EXCEPT !.pc = pc])

\* An exception: nothing catches it, every frame is left.
Raise(kind) ==
    /\ stack' = <<>>
    /\ status' = "raised"
    /\ fault' = kind

\* return: the frame is popped; the entry point's return ends the invocation.
Return ==
    /\ stack' = SubSeq(stack, 1, Len(stack) - 1)
    /\ status' = IF Len(stack) = 1 THEN "returned" ELSE "running"
    /\ fault' = fault

\* A call from the top frame, which resumes at pc `after`; the interpreter
\* raises RecursionError instead when the stack is full.
Call(after, fn, message, webhook, func_name, files, media) ==
    IF Len(stack) >= RecursionLimit
    THEN Raise("RecursionError")
    ELSE /\ stack' = Append(Goto(after), Frame(fn, message, webhook, func_name, files, media))
         /\ status' = status
         /\ fault' = fault

Overflows == Len(stack) >= RecursionLimit

\* A call of send_error_webhook(msg): the webhook parameter is always left
\* to its default, settings.error_webhook.
CallErrorReporter(after, msg) ==
    /\ Call(after, "send_error_webhook", msg, settings.error_webhook, "", <<>>, <<>>)
    /\ errInvoked' = IF Overflows THEN errInvoked ELSE errInvoked + 1
    /\ firstErrMsg' = IF Overflows \/ errInvoked > 0 THEN firstErrMsg ELSE msg

ReporterIdle == UNCHANGED <<errInvoked, firstErrMsg>>

\* Groups of variables an action leaves alone.
Counters == <<deliveries, errPosts, errFails, errLogged, auxCalls, auxResp>>
Staging == <<temp_dir, images, downloads>>
Embed == <<embed_image, embed_color, embed, drawn, colorErrors, embedBuilt>>
Fixed == <<settings, entry, post>>

----------------------------------------------------------------------------
(* Initial state: a configuration snapshot, no invocation yet *)

\* Nothing was invoked yet.
Idle ==
    /\ status = "idle"
    /\ fault = "none"
    /\ entry = NoEntry
    /\ stack = <<>>
    /\ temp_dir = "None"
    /\ images = <<>>
    /\ embed_image = <<>>
    /\ embed_color = "unset"
    /\ embed = NoEmbed
    /\ drawn = <<>>
    /\ colorErrors = 0
    /\ embedBuilt = FALSE
    /\ deliveries = <<>>
    /\ errPosts = EmptyBag
    /\ errFails = 0
    /\ errInvoked = 0
    /\ errLogged = 0
    /\ firstErrMsg = <<>>
    /\ auxCalls = 0
    /\ auxResp = <<>>
    /\ downloads = <<>>

Init ==
    /\ settings \in Settings
    /\ post = PlainPost
    /\ Idle

\* Initial state for the embed: any decoration configured, any post.
InitEmbed ==
    /\ settings \in EmbedSettings
    /\ post \in Posts
    /\ Idle

----------------------------------------------------------------------------
(* The caller invokes one entry point *)

InvokeSendEmbedWebhook ==
    \E w \in Webhooks, m \in MediaLists :
        /\ status = "idle"
        /\ status' = "running"
        /\ entry' = [fn |-> "send_embed_webhook", webhook |-> w, media |-> m]
        /\ stack' = <<Frame("send_embed_webhook", post.text, w, "", <<>>, m)>>
        /\ UNCHANGED <<settings, post, fault, Staging, Embed, Counters, errInvoked, firstErrMsg>>

InvokeSendNormalWebhook ==
    \E w \in Webhooks :
        /\ status = "idle"
        /\ status' = "running"
        /\ entry' = [fn |-> "send_normal_webhook", webhook |-> w, media |-> <<>>]
        /\ stack' = <<Frame("send_normal_webhook", <<"msg">>, w, "", <<>>, <<>>)>>
        /\ UNCHANGED <<settings, post, fault, Staging, Embed, Counters, errInvoked, firstErrMsg>>

InvokeSendHookAndFiles ==
    \E w \in Webhooks, m \in MediaLists :
        /\ status = "idle"
        /\ status' = "running"
        /\ entry' = [fn |-> "send_hook_and_files", webhook |-> w, media |-> m]
        /\ stack' = <<Frame("send_hook_and_files", <<"msg">>, w, "", <<>>, m)>>
        /\ UNCHANGED <<settings, post, fault, Staging, Embed, Counters, errInvoked, firstErrMsg>>

\* A direct report, as the rest of the program makes when it catches a problem.
InvokeSendErrorWebhook ==
    /\ status = "idle"
    /\ status' = "running"
    /\ entry' = [fn |-> "send_error_webhook", webhook |-> settings.error_webhook, media |-> <<>>]
    /\ stack' = <<Frame("send_error_webhook", <<"error">>, settings.error_webhook, "", <<>>, <<>>)>>
    /\ errInvoked' = errInvoked + 1
    /\ firstErrMsg' = <<"error">>
    /\ UNCHANGED <<settings, post, fault, Staging, Embed, Counters>>

----------------------------------------------------------------------------
(* send_error_webhook, lines 229-242 *)

\* A faulty variant: the report is delivered whatever the toggle says.
SendErrorsAlways == TRUE

\* Line 239: settings.send_errors == "True".
SendErrorsEnabled == settings.send_errors = "True"

\* Line 237: logger.error("Got an error: {}", msg).
ErrorReporterLog ==
    /\ At("send_error_webhook", "start")
    /\ errLogged' = errLogged + 1
    /\ stack' = Goto("toggle")
    /\ UNCHANGED <<Fixed, status, fault, Staging, Embed, deliveries, errPosts, errFails,
                   auxCalls, auxResp, errInvoked, firstErrMsg>>

\* Lines 239-242: deliver through _send_webhook when the toggle is "True",
\* else a debug line and return.
ErrorReporterToggle ==
    /\ At("send_error_webhook", "toggle")
    /\ IF SendErrorsEnabled
       THEN Call("return",
                 "_send_webhook", Top.message, Top.webhook, "send_error_webhook()", <<>>, <<>>)
       ELSE Return
    /\ UNCHANGED <<Fixed, Staging, Embed, Counters, errInvoked, firstErrMsg>>

ErrorReporterReturn ==
    /\ At("send_error_webhook", "return")
    /\ Return
    /\ UNCHANGED <<Fixed, Staging, Embed, Counters, errInvoked, firstErrMsg>>

----------------------------------------------------------------------------
(* send_normal_webhook, lines 187-195 *)

SendNormalWebhook ==
    /\ At("send_normal_webhook", "start")
    /\ Call("return",
            "_send_webhook", Top.message, Top.webhook, "send_normal_webhook()", Top.files, <<>>)
    /\ UNCHANGED <<Fixed, Staging, Embed, Counters, errInvoked, firstErrMsg>>

SendNormalWebhookReturn ==
    /\ At("send_normal_webhook", "return")
    /\ Return
    /\ UNCHANGED <<Fixed, Staging, Embed, Counters, errInvoked, firstErrMsg>>

----------------------------------------------------------------------------
(* _send_webhook, lines 198-226 *)

\* Lines 52 and 210: not webhook.
NoWebhook(webhook) == webhook = <<>>

\* Lines 210-214: without a destination report and return, else split it.
SendWebhookCheck ==
    /\ At("_send_webhook", "start")
    /\ IF NoWebhook(Top.webhook)
       THEN CallErrorReporter("return", <<"No webhook URL found. Trying to send">> \o Top.message)
       ELSE /\ stack' = WithTop([Top EXCEPT !.pc = "loop", !.list = Split(Top.webhook, ","), !.i = 1])
            /\ UNCHANGED <<status, fault>>
            /\ ReporterIdle
    /\ UNCHANGED <<Fixed, Staging, Embed, Counters>>

\* Lines 215-226, one iteration: build the hook for the next target, attach
\* the files, execute() it (one POST), and report a non-success response.
\* The loop goes on with the next target once the report has returned.
SendWebhookPost ==
    /\ At("_send_webhook", "loop")
    /\ Top.i <= Len(Top.list)
    /\ \E r \in Outcomes :
        LET url == Top.list[Top.i]
            isError == Top.func_name = "send_error_webhook()"
            next == WithTop([Top EXCEPT !.i = Top.i + 1])
        IN
        /\ IF ~isError
           THEN /\ deliveries' = Append(deliveries, [url |-> url, resp |-> r])
                /\ UNCHANGED <<errPosts, errFails>>
           ELSE /\ errPosts' = errPosts (+) SetToBag({url})
                /\ errFails' = IF r = "fail" THEN errFails + 1 ELSE errFails
                /\ UNCHANGED deliveries
        /\ CASE r = "raise" -> Raise("RequestException") /\ ReporterIdle
             [] r = "ok"    -> stack' = next /\ UNCHANGED <<status, fault>> /\ ReporterIdle
             [] r = "fail"  ->
                    IF Overflows
                    THEN Raise("RecursionError") /\ ReporterIdle
                    ELSE /\ stack' = Append(next,
                                Frame("send_error_webhook", <<"Got status from webhook">>,
                                      settings.error_webhook, "", <<>>, <<>>))
                         /\ UNCHANGED <<status, fault>>
                         /\ errInvoked' = errInvoked + 1
                         /\ firstErrMsg' = IF errInvoked > 0 THEN firstErrMsg
                                           ELSE <<"Got status from webhook">>
    /\ UNCHANGED <<Fixed, Staging, Embed, errLogged, auxCalls, auxResp>>

\* The loop is over: the function returns None.
SendWebhookDone ==
    /\ At("_send_webhook", "loop")
    /\ Top.i > Len(Top.list)
    /\ Return
    /\ UNCHANGED <<Fixed, Staging, Embed, Counters, errInvoked, firstErrMsg>>

\* Line 212: return after the report.
SendWebhookReturn ==
    /\ At("_send_webhook", "return")
    /\ Return
    /\ UNCHANGED <<Fixed, Staging, Embed, Counters, errInvoked, firstErrMsg>>

----------------------------------------------------------------------------
(* get_embed_image, lines 140-184 *)

\* Lines 150-156: no link gives "", one link gives that link, more links go
\* to the collage maker.
EmbedImageStart ==
    /\ At("get_embed_image", "start")
    /\ IF Len(Top.media) = 0
       THEN embed_image' = <<>> /\ Return
       ELSE IF Len(Top.media) = 1
       THEN embed_image' = Top.media[1] /\ Return
       ELSE /\ embed_image' = <<>>
            /\ stack' = Goto("collage")
            /\ UNCHANGED <<status, fault>>
    /\ UNCHANGED <<Fixed, Staging, embed_color, embed, drawn, colorErrors, embedBuilt, Counters,
                   errInvoked, firstErrMsg>>

\* The url the collage maker answers with.
CollageUrl == <<"c", "o", "l", "l", "a", "g", "e">>

\* Lines 178 and 181: media_links[0].
FirstLink(media) == media[1]

\* Lines 159-167 and 179-182: GET the collage; a non-success response falls
\* back to the first link and reports; a success response gives the url.
EmbedImageCollage ==
    /\ At("get_embed_image", "collage")
    /\ auxCalls' = auxCalls + 1
    /\ \E r \in Outcomes :
        /\ auxResp' = Append(auxResp, r)
        /\ CASE r = "raise" -> Raise("RequestException") /\ ReporterIdle /\ UNCHANGED embed_image
             [] r = "fail"  -> /\ embed_image' = FirstLink(Top.media)
                               /\ CallErrorReporter("return", <<"Got status from collage maker">>)
             [] r = "ok"    -> /\ embed_image' = CollageUrl
                               /\ stack' = Goto("head")
                               /\ UNCHANGED <<status, fault>>
                               /\ ReporterIdle
    /\ UNCHANGED <<Fixed, Staging, embed_color, embed, drawn, colorErrors, embedBuilt,
                   deliveries, errPosts, errFails, errLogged>>

\* Lines 170-177: HEAD the collage url; a non-success response is reported.
EmbedImageHead ==
    /\ At("get_embed_image", "head")
    /\ auxCalls' = auxCalls + 1
    /\ \E r \in Outcomes :
        /\ auxResp' = Append(auxResp, r)
        /\ CASE r = "raise" -> Raise("RequestException") /\ ReporterIdle
             [] r = "fail"  -> CallErrorReporter("fallback", <<"Image does not exist">>)
             [] r = "ok"    -> stack' = Goto("return") /\ UNCHANGED <<status, fault>> /\ ReporterIdle
    /\ UNCHANGED <<Fixed, Staging, Embed, deliveries, errPosts, errFails, errLogged>>

\* Line 178: after the report, fall back to the first link.
EmbedImageFallback ==
    /\ At("get_embed_image", "fallback")
    /\ embed_image' = FirstLink(Top.media)
    /\ stack' = Goto("return")
    /\ UNCHANGED <<Fixed, status, fault, Staging, embed_color, embed, drawn, colorErrors,
                   embedBuilt, Counters, errInvoked, firstErrMsg>>

\* Line 184.
EmbedImageReturn ==
    /\ At("get_embed_image", "return")
    /\ Return
    /\ UNCHANGED <<Fixed, Staging, Embed, Counters, errInvoked, firstErrMsg>>

----------------------------------------------------------------------------
(* set_color, lines 117-137 *)

TwitterBlue == <<"#", "1", "D", "A", "1", "F", "2">>

\* Lines 124-126: the shape a configured color must have.
ColorShape(c) == Len(c) = 7 /\ c[1] = "#"

\* Lines 128-130: a configured color of another shape is logged.
InvalidFixedColor ==
    settings.webhook_embed_color # <<>> /\ ~ColorShape(settings.webhook_embed_color)

\* Line 131: the branch that draws a color.
RandomColor == settings.webhook_embed_color = <<>> /\ settings.webhook_randomize_embed_color

\* Lines 123-134: the string whose tail is parsed; rnd is the value randint
\* returns when it is called.
ColorString(rnd) ==
    IF settings.webhook_embed_color # <<>>
    THEN IF ColorShape(settings.webhook_embed_color)
         THEN settings.webhook_embed_color
         ELSE TwitterBlue
    ELSE IF RandomColor
    THEN ToHex(rnd)
    ELSE TwitterBlue

\* Line 137: int(embed_color[1:], 16).
SetColor(rnd) == ParseHex(Tail(ColorString(rnd)))

----------------------------------------------------------------------------
(* send_embed_webhook, lines 28-114 *)

\* A faulty variant: an image already set is kept.
SetImageIfUnset(current, url) == IF current # <<>> THEN current ELSE url

\* Lines 60-63, 65-66, 72-75: if url: embed.set_image(url=url).
SetImage(current, url) == IF url # <<>> THEN url ELSE current

\* A faulty variant: the configured value is ignored.
NotOverridden(override, value) == value

\* Lines 68-70: settings.x or x.
Overridden(override, value) == IF override # <<>> THEN override ELSE value

\* Lines 90 and 95: f"{display_name} (@{username})".
NameAndHandle(display_name, username) == display_name \o <<" (@">> \o username \o <<")">>

\* Line 50: f"https://twitter.com/{username}/status/{tweet_id}".
TweetUrl(username, tweet_id) ==
    <<"https://twitter.com/">> \o username \o <<"/status/">> \o tweet_id

\* A faulty variant: a footer is set whatever is configured.
FooterAlways(e) ==
    [e EXCEPT !.footer = <<[icon_url |-> settings.webhook_footer_icon,
                            text     |-> settings.webhook_footer_text]>>]

\* Lines 13-25, customize_footer: a footer when an icon or a text is
\* configured, with the fields that are.
CustomizeFooter(e) ==
    IF settings.webhook_footer_icon # <<>> /\ settings.webhook_footer_text # <<>>
    THEN [e EXCEPT !.footer = <<[icon_url |-> settings.webhook_footer_icon,
                                 text     |-> settings.webhook_footer_text]>>]
    ELSE IF settings.webhook_footer_icon # <<>>
    THEN [e EXCEPT !.footer = <<[icon_url |-> settings.webhook_footer_icon, text |-> <<>>]>>]
    ELSE IF settings.webhook_footer_text # <<>>
    THEN [e EXCEPT !.footer = <<[icon_url |-> <<>>, text |-> settings.webhook_footer_text]>>]
    ELSE e

\* Lines 58-63: DiscordEmbed(description=text) with the card image, if any.
NewEmbed ==
    [NoEmbed EXCEPT !.description = post.text,
                    !.image = SetImage(<<>>, post.twitter_card_image)]

\* Lines 65-95: the embed e once the image the lookup returned, the
\* overrides, the thumbnail, the timestamp, the footer, the title and the
\* author block are applied.
Decorated(e, resolved) ==
    LET avatar_url   == Overridden(settings.webhook_author_icon, post.avatar_url)
        display_name == Overridden(settings.webhook_author_name, post.display_name)
        tweet_url    == Overridden(settings.webhook_author_url,
                                   TweetUrl(post.username, post.tweet_id))
        imaged == [e EXCEPT !.image = SetImage(SetImage(e.image, resolved), settings.webhook_image),
                            !.thumbnail = SetImage(e.thumbnail, settings.webhook_thumbnail),
                            !.timestamp = settings.webhook_show_timestamp]
        footed == CustomizeFooter(imaged)
        titled == IF settings.use_title
                  THEN [footed EXCEPT !.title = NameAndHandle(display_name, post.username)]
                  ELSE footed
    IN  IF settings.use_author
        THEN [titled EXCEPT !.author = <<[name     |-> NameAndHandle(display_name, post.username),
                                          url      |-> tweet_url,
                                          icon_url |-> avatar_url]>>]
        ELSE titled

\* Lines 50-54: without a destination report and return.
SendEmbedCheck ==
    /\ At("send_embed_webhook", "start")
    /\ IF NoWebhook(Top.webhook)
       THEN CallErrorReporter("return", <<"No webhook URL found. Tried to send tweet embed">>)
       ELSE stack' = Goto("build") /\ UNCHANGED <<status, fault>> /\ ReporterIdle
    /\ UNCHANGED <<Fixed, Staging, Embed, Counters>>

\* Line 54.
SendEmbedReturn ==
    /\ At("send_embed_webhook", "return")
    /\ Return
    /\ UNCHANGED <<Fixed, Staging, Embed, Counters, errInvoked, firstErrMsg>>

\* Lines 57-65: the hook and the embed are constructed, then the image is
\* looked up.
SendEmbedBuild ==
    /\ At("send_embed_webhook", "build")
    /\ embedBuilt' = TRUE
    /\ embed' = NewEmbed
    /\ Call("finish", "get_embed_image", <<>>, <<>>, "", <<>>, Top.media)
    /\ UNCHANGED <<Fixed, Staging, embed_image, embed_color, drawn, colorErrors, Counters,
                   errInvoked, firstErrMsg>>

\* Lines 66-105: the embed is filled in, set_color gives it its color (int()
\* raises ValueError on a string it cannot parse), the embed is added to the
\* hook, and the destination is split into its targets.
SendEmbedFinish ==
    /\ At("send_embed_webhook", "finish")
    /\ \E rnd \in RandomDraws :
        LET color == SetColor(rnd) IN
        /\ drawn' = IF RandomColor THEN Append(drawn, rnd) ELSE drawn
        /\ colorErrors' = IF InvalidFixedColor THEN colorErrors + 1 ELSE colorErrors
        /\ embed' = [Decorated(embed, embed_image) EXCEPT !.done = color.ok]
        /\ IF color.ok
           THEN /\ embed_color' = color.value
                /\ stack' = WithTop([Top EXCEPT !.pc = "loop", !.list = Split(Top.webhook, ","),
                                                !.i = 1])
                /\ UNCHANGED <<status, fault>>
           ELSE /\ Raise("ValueError")
                /\ UNCHANGED embed_color
    /\ UNCHANGED <<Fixed, Staging, embed_image, embedBuilt, Counters, errInvoked, firstErrMsg>>

\* Lines 106-114, one iteration: execute() the hook against the next target
\* (one POST) and report a non-success response.
SendEmbedPost ==
    /\ At("send_embed_webhook", "loop")
    /\ Top.i <= Len(Top.list)
    /\ \E r \in Outcomes :
        /\ deliveries' = Append(deliveries, [url |-> Top.list[Top.i], resp |-> r])
        /\ CASE r = "raise" -> Raise("RequestException") /\ ReporterIdle
             [] r = "ok"    -> /\ stack' = WithTop([Top EXCEPT !.i = Top.i + 1])
                               /\ UNCHANGED <<status, fault>>
                               /\ ReporterIdle
             [] r = "fail"  ->
                    IF Overflows
                    THEN Raise("RecursionError") /\ ReporterIdle
                    ELSE /\ stack' = Append(WithTop([Top EXCEPT !.i = Top.i + 1]),
                                Frame("send_error_webhook", <<"Got status from webhook">>,
                                      settings.error_webhook, "", <<>>, <<>>))
                         /\ UNCHANGED <<status, fault>>
                         /\ errInvoked' = errInvoked + 1
                         /\ firstErrMsg' = IF errInvoked > 0 THEN firstErrMsg
                                           ELSE <<"Got status from webhook">>
    /\ UNCHANGED <<Fixed, Staging, Embed, errPosts, errFails, errLogged, auxCalls, auxResp>>

\* The loop is over: the function returns None.
SendEmbedDone ==
    /\ At("send_embed_webhook", "loop")
    /\ Top.i > Len(Top.list)
    /\ Return
    /\ UNCHANGED <<Fixed, Staging, Embed, Counters, errInvoked, firstErrMsg>>

----------------------------------------------------------------------------
(* download_images, lines 269-293 *)

\* Lines 280-283: the temporary directory is created.
DownloadImagesStart ==
    /\ At("download_images", "start")
    /\ temp_dir' = "exists"
    /\ images' = <<>>
    /\ stack' = WithTop([Top EXCEPT !.pc = "loop", !.i = 1])
    /\ UNCHANGED <<Fixed, status, fault, downloads, Embed, Counters, errInvoked, firstErrMsg>>

\* A faulty variant: the file is listed whatever the response.
StagedAlways(imgs, link, r) == Append(imgs, Basename(link))

\* Lines 286-290: the list of images after the response r to the GET of
\* link; only a success response is written and listed.
Staged(imgs, link, r) == IF r = "ok" THEN Append(imgs, Basename(link)) ELSE imgs

\* Lines 284-292, one iteration: GET the link; a success response is written
\* to the directory and appended to images, a non-success one is logged.
DownloadImagesGet ==
    /\ At("download_images", "loop")
    /\ Top.i <= Len(Top.media)
    /\ \E r \in Outcomes :
        /\ downloads' = Append(downloads, [url |-> Top.media[Top.i], resp |-> r,
                                           logged |-> r = "fail"])
        /\ IF r = "raise"
           THEN Raise("RequestException") /\ UNCHANGED images
           ELSE /\ images' = Staged(images, Top.media[Top.i], r)
                /\ stack' = WithTop([Top EXCEPT !.i = Top.i + 1])
                /\ UNCHANGED <<status, fault>>
    /\ UNCHANGED <<Fixed, temp_dir, Embed, Counters, errInvoked, firstErrMsg>>

\* Line 293.
DownloadImagesReturn ==
    /\ At("download_images", "loop")
    /\ Top.i > Len(Top.media)
    /\ Return
    /\ UNCHANGED <<Fixed, Staging, Embed, Counters, errInvoked, firstErrMsg>>

----------------------------------------------------------------------------
(* send_hook_and_files, lines 245-266 *)

\* Lines 253-257: download the images when they are to be uploaded.
SendHookStart ==
    /\ At("send_hook_and_files", "start")
    /\ IF settings.upload_images
       THEN Call("send", "download_images", <<>>, <<>>, "", <<>>, Top.media)
       ELSE stack' = Goto("send") /\ UNCHANGED <<status, fault>>
    /\ UNCHANGED <<Fixed, Staging, Embed, Counters, errInvoked, firstErrMsg>>

\* Lines 259-263: the links are appended to the message when asked for, and
\* the message is sent with the staged files.
SendHookSend ==
    /\ At("send_hook_and_files", "send")
    /\ LET msg == IF settings.append_image_links THEN Top.message \o Top.media ELSE Top.message
       IN Call("cleanup", "send_normal_webhook", msg, Top.webhook, "", images, <<>>)
    /\ UNCHANGED <<Fixed, Staging, Embed, Counters, errInvoked, firstErrMsg>>

\* A faulty variant: the function returns without cleaning up.
SendHookLeak ==
    /\ At("send_hook_and_files", "cleanup")
    /\ Return
    /\ UNCHANGED <<Fixed, Staging, Embed, Counters, errInvoked, firstErrMsg>>

\* Lines 265-266: the directory, when one was made, is removed.
SendHookCleanup ==
    /\ At("send_hook_and_files", "cleanup")
    /\ temp_dir' = IF temp_dir # "None" THEN "removed" ELSE temp_dir
    /\ Return
    /\ UNCHANGED <<Fixed, images, downloads, Embed, Counters, errInvoked, firstErrMsg>>

----------------------------------------------------------------------------
(* The program *)

Next ==
    \/ InvokeSendEmbedWebhook
    \/ InvokeSendNormalWebhook
    \/ InvokeSendHookAndFiles
    \/ InvokeSendErrorWebhook
    \/ ErrorReporterLog
    \/ ErrorReporterToggle
    \/ ErrorReporterReturn
    \/ SendNormalWebhook
    \/ SendNormalWebhookReturn
    \/ SendWebhookCheck
    \/ SendWebhookPost
    \/ SendWebhookDone
    \/ SendWebhookReturn
    \/ EmbedImageStart
    \/ EmbedImageCollage
    \/ EmbedImageHead
    \/ EmbedImageFallback
    \/ EmbedImageReturn
    \/ SendEmbedCheck
    \/ SendEmbedReturn
    \/ SendEmbedBuild
    \/ SendEmbedFinish
    \/ SendEmbedPost
    \/ SendEmbedDone
    \/ DownloadImagesStart
    \/ DownloadImagesGet
    \/ DownloadImagesReturn
    \/ SendHookStart
    \/ SendHookSend
    \/ SendHookCleanup

Spec == Init /\ [][Next]_vars

\* send_embed_webhook alone, with the functions it calls.
NextEmbed ==
    \/ InvokeSendEmbedWebhook
    \/ ErrorReporterLog
    \/ ErrorReporterToggle
    \/ EmbedImageStart
    \/ EmbedImageCollage
    \/ EmbedImageHead
    \/ EmbedImageFallback
    \/ EmbedImageReturn
    \/ SendEmbedCheck
    \/ SendEmbedReturn
    \/ SendEmbedBuild
    \/ SendEmbedFinish
    \/ SendEmbedPost
    \/ SendEmbedDone

SpecEmbed == InitEmbed /\ [][NextEmbed]_vars

----------------------------------------------------------------------------
(* State functions the properties are stated with *)

Ended == status \in {"returned", "raised"}

\* Number of targets a destination string names: one more than its commas.
NTargets(webhook) == Count(webhook, ",") + 1

\* Number of POSTs the error reporter's send has issued.
ErrorPostCount == BagCardinality(errPosts)

\* Frames of fn on the stack.
FramesOf(fn) == {k \in 1..Len(stack) : stack[k].fn = fn}

\* Notification targets that answered with r.
Answered(r) == {k \in 1..Len(deliveries) : deliveries[k].resp = r}

FanOutEntry == entry.fn \in {"send_embed_webhook", "send_normal_webhook"}

\* The invocation is a direct report to a single, non-empty error destination
\* with delivery enabled.
SingleReport ==
    /\ entry.fn = "send_error_webhook"
    /\ settings.send_errors = "True"
    /\ settings.error_webhook # <<>>
    /\ NTargets(settings.error_webhook) = 1

----------------------------------------------------------------------------
(* Properties *)

\* C1: one invocation of send_error_webhook with the toggle enabled makes at
\* most one POST: a non-success answer of the error destination leads to no
\* second POST and to no further invocation of send_error_webhook.
C1_AtMostOneCallPerReport ==
    SingleReport => (errInvoked <= 1 /\ ErrorPostCount <= 1)

\* C2: every call of send_error_webhook returns, whatever the error
\* destination answers, also when it answers non-success every time: an
\* invocation that got an answer to each of its POSTs ends by returning.
C2_ReporterReturns ==
    ( /\ entry.fn = "send_error_webhook"
      /\ settings.error_webhook # <<>>
      /\ Ended
      /\ fault # "RequestException" )
    => status = "returned"

\* C3: called with a non-empty destination of n targets, both send entry
\* points POST exactly once to each of the n targets, whatever success or
\* non-success responses the targets before gave.
C3_EveryTargetAttempted ==
    ( /\ FanOutEntry
      /\ entry.webhook # <<>>
      /\ settings.error_webhook # <<>>
      /\ Ended
      /\ fault \notin {"RequestException", "ValueError"} )
    => /\ Len(deliveries) = NTargets(entry.webhook)
       /\ \A k \in 1..Len(deliveries) : deliveries[k].url = Split(entry.webhook, ",")[k]

\* C4: a fan-out results in as many invocations of send_error_webhook as
\* targets answered non-success (one for A,B,C with A failing and B, C
\* succeeding).
C4_OneReportPerFailedTarget ==
    ( /\ entry.fn = "send_normal_webhook"
      /\ entry.webhook # <<>>
      /\ status = "returned" )
    => errInvoked = Cardinality(Answered("fail"))

\* C5: a transport error on one target (no HTTP response) is reported through
\* send_error_webhook, the other targets are still attempted, and the dispatch
\* does not propagate an exception to its caller.
C5_TransportErrorIsolated ==
    ( /\ FanOutEntry
      /\ Ended
      /\ Answered("raise") # {} )
    => /\ status = "returned"
       /\ Len(deliveries) = NTargets(entry.webhook)
       /\ errInvoked >= 1

\* C6: called with an empty destination, send_embed_webhook and _send_webhook
\* invoke send_error_webhook with a descriptive message and return, with no
\* POST to a notification destination and, in send_embed_webhook, no collage
\* lookup and no embed.
C6_EmptyDestinationReturns ==
    ( /\ FanOutEntry
      /\ entry.webhook = <<>>
      /\ settings.error_webhook # <<>>
      /\ Ended
      /\ fault # "RequestException" )
    => /\ status = "returned"
       /\ errInvoked >= 1
       /\ deliveries = <<>>
       /\ auxCalls = 0
       /\ ~embedBuilt

\* C6, the part that holds in every state: with an empty destination the
\* entry point and _send_webhook stand only at their check or at the return
\* that follows the report, nothing is POSTed to a notification destination,
\* no collage lookup is made and no embed is built, and the first report
\* carries the "No webhook URL found" message.
NoDeliveryWithoutDestination ==
    ( entry.fn \in {"send_embed_webhook", "send_normal_webhook", "send_hook_and_files"}
      /\ entry.webhook = <<>> )
    => /\ deliveries = <<>>
       /\ auxCalls = 0
       /\ ~embedBuilt
       /\ embed_color = "unset"
       /\ \A k \in 1..Len(stack) :
             /\ stack[k].fn = "send_embed_webhook" => stack[k].pc \in {"start", "return"}
             /\ stack[k].fn = "_send_webhook" /\ stack[k].webhook = <<>>
                    => stack[k].pc \in {"start", "return"}
       /\ errInvoked >= 1
             => Head(firstErrMsg) \in
                   {"No webhook URL found. Tried to send tweet embed",
                    "No webhook URL found. Trying to send"}

\* C7: every invocation of send_error_webhook logs its message, and only with
\* the toggle enabled does it go on to a POST to the error destination: with
\* the toggle disabled no failure anywhere leads to such a POST.
C7_LogAlwaysPostOnlyIfEnabled ==
    /\ errLogged = errInvoked -
            Cardinality({k \in FramesOf("send_error_webhook") : stack[k].pc = "start"})
    /\ settings.send_errors # "True"
         => /\ errPosts = EmptyBag
            /\ \A k \in FramesOf("_send_webhook") : stack[k].func_name # "send_error_webhook()"

\* Reached: with the toggle disabled a collage failure and two target
\* failures were reported and logged, and the dispatch returned.
C7_Witness ==
    /\ settings.send_errors = "False"
    /\ entry.fn = "send_embed_webhook"
    /\ auxCalls >= 1
    /\ Cardinality(Answered("fail")) >= 2
    /\ errInvoked >= 3
    /\ errLogged = errInvoked
    /\ status = "returned"

C9_TempDirGoneOnReturn ==
    ( /\ entry.fn = "send_hook_and_files"
      /\ settings.upload_images
      /\ status = "returned" )
    => temp_dir = "removed"

\* Reached: send_hook_and_files returned after a download and a send were
\* answered with non-success.
C9_Witness ==
    /\ entry.fn = "send_hook_and_files"
    /\ settings.upload_images
    /\ status = "returned"
    /\ Len(entry.media) = 2
    /\ Len(images) = 1
    /\ Answered("fail") # {}
    /\ Answered("ok") # {}
    /\ temp_dir = "removed"

\* C10: the temporary directory is released on every exit of
\* send_hook_and_files, an exit by exception included.
C10_TempDirReleasedOnEveryExit ==
    (entry.fn = "send_hook_and_files" /\ Ended) => temp_dir # "exists"

\* The value of the default color "#1DA1F2".
DefaultColor == 1942002

\* A 7-character #RRGGBB string.
ValidRRGGBB(c) == Len(c) = 7 /\ c[1] = "#" /\ \A k \in 2..7 : IsHexDigit(c[k])

\* C11: with a fixed color string configured, set_color does not fail the
\* caller; the embed color is the value of the six hex digits when the string
\* is a valid 7-character #RRGGBB, and for every other string it is the
\* default 0x1DA1F2 and one error line is logged.
C11_FixedColorResolved ==
    (entry.fn = "send_embed_webhook" /\ settings.webhook_embed_color # <<>>)
    => /\ fault # "ValueError"
       /\ embed.done
          => IF ValidRRGGBB(settings.webhook_embed_color)
             THEN embed_color = HexValue(Tail(settings.webhook_embed_color)) /\ colorErrors = 0
             ELSE embed_color = DefaultColor /\ colorErrors = 1

\* C12: with no fixed color and the randomize toggle set, set_color completes
\* without error for every value v drawn from 0..16777215, and the embed color
\* is v.
C12_RandomColorIsTheDraw ==
    (entry.fn = "send_embed_webhook" /\ RandomColor /\ drawn # <<>>)
    => /\ fault # "ValueError"
       /\ embed.done => embed_color = drawn[1]

\* The lookup took a fallback path: the collage GET, or the HEAD after it,
\* was answered with non-success.
ResolverFellBack == Len(entry.media) >= 2 /\ auxResp \in {<<"fail">>, <<"ok", "fail">>}

\* C13: get_embed_image returns "" for no media link, the link for one, and
\* for two or more the collage url when the GET and the HEAD succeed, else
\* (GET or HEAD answered with non-success) the first link; send_error_webhook
\* is invoked exactly once on each fallback path and never on the others.
C13_ResolverResult ==
    ( /\ entry.fn = "send_embed_webhook"
      /\ settings.error_webhook # <<>>
      /\ embedBuilt
      /\ deliveries = <<>> )
    => /\ ResolverFellBack => fault # "RecursionError"
       /\ At("send_embed_webhook", "finish")
          => /\ embed_image = IF Len(entry.media) = 0 THEN <<>>
                              ELSE IF Len(entry.media) = 1 THEN entry.media[1]
                              ELSE IF auxResp = <<"ok", "ok">> THEN CollageUrl
                              ELSE entry.media[1]
             /\ errInvoked = IF ResolverFellBack THEN 1 ELSE 0

\* C14: the image of the finished embed is the configured override image when
\* there is one, else the image get_embed_image returned when it returned one,
\* else the card image of the post when it has one, else none.
C14_ImagePriority ==
    embed.done
    => embed.image = IF settings.webhook_image # <<>> THEN settings.webhook_image
                     ELSE IF embed_image # <<>> THEN embed_image
                     ELSE post.twitter_card_image

\* Reached: an embed was finished for a post with a card image and media,
\* with an override image configured, and carries the override.
C14_Witness ==
    /\ embed.done
    /\ settings.webhook_image # <<>>
    /\ post.twitter_card_image # <<>>
    /\ embed_image # <<>>
    /\ embed.image = settings.webhook_image

\* C15: with the title toggle on and an author-name override, the title is
\* built from the display name of the post, "Alice (@alice)", and the author
\* block, when enabled, from the override, "Bot (@alice)".
C15_TitleKeepsPostName ==
    (embed.done /\ settings.use_title /\ settings.webhook_author_name # <<>>)
    => /\ embed.title = post.display_name \o <<" (@">> \o post.username \o <<")">>
       /\ settings.use_author
          => embed.author[1].name
               = settings.webhook_author_name \o <<" (@">> \o post.username \o <<")">>

\* C15, amended: the author-name override replaces the display name of the
\* post wherever it is shown.  The title and the name of the author block are
\* the same string, "<name> (@<username>)", with the override as name when one
\* is configured and the display name of the post otherwise; the username is
\* always that of the post.
C15_OverrideNamesTitleAndAuthor ==
    embed.done
    => LET name  == IF settings.webhook_author_name # <<>>
                    THEN settings.webhook_author_name
                    ELSE post.display_name
           shown == name \o <<" (@">> \o post.username \o <<")">>
       IN  /\ settings.use_title => embed.title = shown
           /\ settings.use_author => embed.author[1].name = shown

\* Reached: title and author block both enabled with the override "Bot"; the
\* title reads "Bot (@alice)".
C15_Witness ==
    /\ embed.done
    /\ settings.use_title
    /\ settings.use_author
    /\ settings.webhook_author_name = <<"Bot">>
    /\ embed.title = <<"Bot", " (@", "alice", ")">>
    /\ embed.author[1].name = embed.title

\* No override, no footer, both toggles off.
DefaultConfig ==
    /\ settings.webhook_image = <<>>
    /\ settings.webhook_author_name = <<>>
    /\ settings.webhook_author_icon = <<>>
    /\ settings.webhook_author_url = <<>>
    /\ settings.webhook_thumbnail = <<>>
    /\ settings.webhook_footer_icon = <<>>
    /\ settings.webhook_footer_text = <<>>
    /\ ~settings.webhook_show_timestamp
    /\ ~settings.use_title
    /\ ~settings.use_author
    /\ settings.webhook_embed_color = <<>>
    /\ ~settings.webhook_randomize_embed_color

\* C16: the embed has a title iff the title toggle is on and an author block
\* iff the author toggle is on; with the default configuration a post with
\* body "hello", no media and no card image gives an embed with description
\* "hello", no image, no title, no author block, no footer and color 0x1DA1F2.
C16_TogglesAndDefaultEmbed ==
    embed.done
    => /\ embed.title # <<>> <=> settings.use_title
       /\ embed.author # <<>> <=> settings.use_author
       /\ (DefaultConfig /\ post = PlainPost /\ entry.media = <<>>)
          => /\ embed.description = <<"hello">>
             /\ embed.image = <<>>
             /\ embed.title = <<>>
             /\ embed.author = <<>>
             /\ embed.footer = <<>>
             /\ embed_color = DefaultColor

\* Reached: the default scenario was built and sent.
C16_Witness ==
    /\ embed.done
    /\ DefaultConfig
    /\ post = PlainPost
    /\ entry.media = <<>>
    /\ status = "returned"
    /\ embed.description = <<"hello">>

\* The file names of the downloads answered with success, in order.
RECURSIVE OkFiles(_)
OkFiles(ds) ==
    IF ds = <<>> THEN <<>>
    ELSE LET rest == OkFiles(SubSeq(ds, 1, Len(ds) - 1))
             d    == ds[Len(ds)]
         IN  IF d.resp = "ok" THEN Append(rest, Basename(d.url)) ELSE rest

\* C17: download_images lists exactly the files whose download was answered
\* with success, in the order of the media links; a link answered with
\* non-success is logged, adds no entry, and the links after it are still
\* downloaded.
C17_ExactlyTheDownloaded ==
    /\ images = OkFiles(downloads)
    /\ \A k \in 1..Len(downloads) : downloads[k].logged <=> downloads[k].resp = "fail"
    /\ (At("send_hook_and_files", "send") /\ settings.upload_images)
       => /\ Len(downloads) = Len(entry.media)
          /\ \A k \in 1..Len(downloads) : downloads[k].url = entry.media[k]

\* Reached: download_images returned after the first link was answered with
\* non-success and the second with success; only the second file is listed.
C17_Witness ==
    /\ At("send_hook_and_files", "send")
    /\ settings.upload_images
    /\ Len(downloads) = 2
    /\ downloads[1].resp = "fail"
    /\ downloads[2].resp = "ok"
    /\ images = <<Basename(entry.media[2])>>

\* C18: with an empty error destination and the toggle enabled, a call of
\* send_error_webhook logs the message once and returns without an HTTP call;
\* the missing-destination check of _send_webhook invokes send_error_webhook
\* no further.
C18_EmptyErrorDestinationTerminates ==
    ( /\ entry.fn = "send_error_webhook"
      /\ settings.send_errors = "True"
      /\ settings.error_webhook = <<>> )
    => /\ errInvoked <= 1
       /\ ErrorPostCount = 0
       /\ Ended => (status = "returned" /\ errLogged = 1)

====
